---- MODULE Spec2Model ----
(***************************************************************************)
(* bbtornado: the JSON serialisation mixin of bbtornado/models.py and the  *)
(* request handler base of bbtornado/handlers.py.                          *)
(*                                                                         *)
(* Strings that the code takes apart (directives of extra_fields, field    *)
(* names, cookie values) are sequences of one-character strings, so that   *)
(* startswith, index('.'), f[1:], unicode() and int() are computed as the  *)
(* code computes them.                                                     *)
(***************************************************************************)
EXTENDS Integers, Sequences, FiniteSets, TLC

VARIABLES self, private, extra_fields, skip_nulls, rval, pc,
          user_model, jar, handler, requests, nsessions

json_vars    == <<self, private, extra_fields, skip_nulls, rval, pc>>
handler_vars == <<user_model, jar, handler, requests, nsessions>>
vars         == <<json_vars, handler_vars>>

(***************************************************************************)
(* Bounds                                                                  *)
(***************************************************************************)
MaxDirectives == 2
MaxRequests   == 3
MaxAccesses   == 2
MaxUserId     == 10

(***************************************************************************)
(* Python str operations on sequences of characters                        *)
(***************************************************************************)
HasDot(f) == \E i \in DOMAIN f : f[i] = "."

IndexDot(f) == CHOOSE i \in DOMAIN f : f[i] = "." /\ \A j \in 1..(i-1) : f[j] # "."

StartsWith(f, k) == Len(f) >= Len(k) /\ SubSeq(f, 1, Len(k)) = k

Slice1(f) == SubSeq(f, 2, Len(f))

AfterDot(f) == SubSeq(f, IndexDot(f) + 1, Len(f))

(***************************************************************************)
(* The mapped classes and the object graph that is serialised.  Field      *)
(* names: one relation name (user) is a prefix of two others (users,       *)
(* users_old).  Column values are opaque scalars tagged with the object    *)
(* and field they belong to (_to_json returns str and int values as they   *)
(* are); one relation value is None.                                       *)
(***************************************************************************)
F_id        == <<"i","d">>
F_token     == <<"t","o","k","e","n">>
F_key       == <<"k","e","y">>
F_user      == <<"u","s","e","r">>
F_users     == <<"u","s","e","r","s">>
F_users_old == <<"u","s","e","r","s","_","o","l","d">>
F_email     == <<"e","m","a","i","l">>
F_password  == <<"p","a","s","s","w","o","r","d">>
F_profile   == <<"p","r","o","f","i","l","e">>
F_phone     == <<"p","h","o","n","e">>
F_ssn       == <<"s","s","n">>
F_label     == <<"l","a","b","e","l">>

Objects == {"t", "u1", "u2", "u3", "p1"}

Class(o) == CASE o = "t" -> "Team"
              [] o \in {"u1", "u2", "u3"} -> "User"
              [] o = "p1" -> "Profile"

Scalar(o, f) == [kind |-> "scalar", owner |-> o, field |-> f]
None         == [kind |-> "none"]
Ref(o)       == [kind |-> "obj", o |-> o]
List(s)      == [kind |-> "list", elems |-> s]
Dict(items)  == [kind |-> "dict", items |-> items]
AttributeError == [kind |-> "AttributeError"]

UserAttrs(o, prof) ==
    (F_id :> Scalar(o, F_id)) @@ (F_email :> Scalar(o, F_email)) @@
    (F_password :> Scalar(o, F_password)) @@ (F_profile :> prof)

Attrs(o) ==
    CASE o = "t" ->
           (F_id :> Scalar("t", F_id)) @@ (F_token :> Scalar("t", F_token)) @@
           (F_key :> Scalar("t", F_key)) @@ (F_label :> Scalar("t", F_label)) @@
           (F_user :> Ref("u1")) @@
           (F_users :> List(<<Ref("u2"), Ref("u3")>>)) @@
           (F_users_old :> List(<<Ref("u3"), Ref("u1")>>))
      [] o = "u1" -> UserAttrs("u1", None)
      [] o = "u2" -> UserAttrs("u2", Ref("p1"))
      [] o = "u3" -> UserAttrs("u3", None)
      [] o = "p1" ->
           (F_id :> Scalar("p1", F_id)) @@ (F_phone :> Scalar("p1", F_phone)) @@
           (F_ssn :> Scalar("p1", F_ssn))

\* p.key for p in sqlalchemy.orm.object_mapper(self).iterate_properties
MapperProperties(c) ==
    CASE c = "Team"    -> {F_id, F_token, F_key, F_user, F_users, F_users_old}
      [] c = "User"    -> {F_id, F_email, F_password, F_profile}
      [] c = "Profile" -> {F_id, F_phone, F_ssn}

json_fields_public(c)  == IF c = "Team" THEN {F_label} ELSE {}

json_fields_private(c) ==
    CASE c = "Team" -> {F_token} [] c = "User" -> {F_email} [] c = "Profile" -> {F_phone}

json_fields_hidden(c)  ==
    CASE c = "Team" -> {F_key} [] c = "User" -> {F_password} [] c = "Profile" -> {F_ssn}

\* getattr(o, k)
GetAttr(o, k) == IF k \in DOMAIN Attrs(o) THEN Attrs(o)[k] ELSE AttributeError

(***************************************************************************)
(* BaseModel._to_json and the module function _to_json.  extra_fields is a  *)
(* set: the code only tests membership, iterates, and (for next_fields)    *)
(* builds a set itself.  An AttributeError raised by getattr propagates    *)
(* out of every enclosing call.                                            *)
(***************************************************************************)
\* SelectFields with the exclusions applied before the inclusions
SelectFields_ExcludeFirst(o, priv, extra) ==
    LET c  == Class(o)
        f0 == MapperProperties(c) \cup json_fields_public(c)
        f1 == IF ~priv THEN f0 \ json_fields_private(c) ELSE f0
        f2 == f1 \ {Slice1(f) : f \in {g \in extra : StartsWith(g, <<"!">>)}}
        f3 == f2 \cup {f \in extra : ~HasDot(f) /\ f[1] \notin {"!", "^"}}
        f4 == f3 \ json_fields_hidden(c)
        only_fields == {Slice1(f) : f \in {g \in extra : StartsWith(g, <<"^">>)}}
    IN  IF only_fields # {} THEN f4 \cap only_fields ELSE f4

\* SelectFields with the only-fields added instead of intersected
SelectFields_OnlyAdds(o, priv, extra) ==
    LET c  == Class(o)
        f0 == MapperProperties(c) \cup json_fields_public(c)
        f1 == IF ~priv THEN f0 \ json_fields_private(c) ELSE f0
        f2 == f1 \cup {f \in extra : ~HasDot(f) /\ f[1] \notin {"!", "^"}}
        f3 == f2 \ {Slice1(f) : f \in {g \in extra : StartsWith(g, <<"!">>)}}
        f4 == f3 \ json_fields_hidden(c)
        only_fields == {Slice1(f) : f \in {g \in extra : StartsWith(g, <<"^">>)}}
    IN  f4 \cup only_fields

SelectFields(o, priv, extra) ==
    LET c  == Class(o)
        f0 == MapperProperties(c) \cup json_fields_public(c)
        f1 == IF ~priv THEN f0 \ json_fields_private(c) ELSE f0
        f2 == f1 \cup {f \in extra : ~HasDot(f) /\ f[1] \notin {"!", "^"}}
        f3 == f2 \ {Slice1(f) : f \in {g \in extra : StartsWith(g, <<"!">>)}}
        f4 == f3 \ json_fields_hidden(c)
        only_fields == {Slice1(f) : f \in {g \in extra : StartsWith(g, <<"^">>)}}
    IN  IF only_fields # {} THEN f4 \cap only_fields ELSE f4

NextFields(extra, k) == {AfterDot(f) : f \in {g \in extra : HasDot(g) /\ StartsWith(g, k)}}

OnlyFields(next_fields) == {f \in next_fields : StartsWith(f, <<"^">>)}

IsError(v) == v.kind = "AttributeError"

\* [ getattr(v, only_fields[0][1:]) for v in val ]
BareList(val, name) ==
    LET got == [i \in DOMAIN val.elems |-> GetAttr(val.elems[i].o, name)]
    IN  IF \E i \in DOMAIN got : IsError(got[i]) THEN AttributeError ELSE List(got)

RECURSIVE to_json(_, _, _, _)
RECURSIVE BaseModel_to_json(_, _, _, _)

FieldValue(o, k, priv, extra, skip) ==
    LET next_fields == NextFields(extra, k)
        only_fields == OnlyFields(next_fields)
        val         == GetAttr(o, k)
    IN  IF IsError(val) THEN AttributeError
        ELSE IF Cardinality(only_fields) = 1 /\ val.kind = "list"
             THEN BareList(val, Slice1(CHOOSE f \in only_fields : TRUE))
             ELSE to_json(val, priv, next_fields, skip)

to_json(val, priv, extra, skip) ==
    CASE val.kind = "list" ->
           LET out == [i \in DOMAIN val.elems |-> to_json(val.elems[i], priv, extra, skip)]
           IN  IF \E i \in DOMAIN out : IsError(out[i]) THEN AttributeError ELSE List(out)
      [] val.kind = "obj" -> BaseModel_to_json(val.o, priv, extra, skip)
      [] OTHER -> val

BaseModel_to_json(o, priv, extra, skip) ==
    LET fields == SelectFields(o, priv, extra)
        all    == [k \in fields |-> FieldValue(o, k, priv, extra, skip)]
        kept   == {k \in fields : ~(skip /\ all[k] = None)}
    IN  IF \E k \in fields : IsError(all[k]) THEN AttributeError
        ELSE Dict([k \in kept |-> all[k]])

(***************************************************************************)
(* The calls of BaseModel._to_json that are explored                       *)
(***************************************************************************)
Flags == {<<>>, <<"!">>, <<"^">>}

Dot == <<".">>

Directives(o) ==
    CASE Class(o) = "Team" ->
           {fl \o n : fl \in Flags, n \in {F_id, F_token, F_key, F_users}}
           \cup {F_email}
           \cup {r \o Dot \o fl \o n : r \in {F_user, F_users, F_users_old}, fl \in Flags,
                                      n \in {F_id, F_email, F_password, F_profile}}
           \cup {F_users \o Dot \o F_profile \o Dot \o fl \o n :
                                      fl \in Flags, n \in {F_phone, F_ssn}}
      [] Class(o) = "User" ->
           {fl \o n : fl \in Flags, n \in {F_id, F_email, F_password, F_profile}}
           \cup {F_profile \o Dot \o fl \o n : fl \in Flags, n \in {F_phone, F_ssn}}
      [] Class(o) = "Profile" ->
           {fl \o n : fl \in Flags, n \in {F_id, F_phone, F_ssn}}

Roots == {"t", "u2", "p1"}

NotCalled == [kind |-> "not called"]

\* the collections of at most n directives drawn from S
RECURSIVE Collections(_, _)
Collections(S, n) ==
    IF n = 0 THEN {{}}
    ELSE LET P == Collections(S, n - 1) IN P \cup {p \cup {x} : p \in P, x \in S}

JsonInit ==
    /\ self \in Roots
    /\ private \in BOOLEAN
    /\ skip_nulls \in BOOLEAN
    /\ extra_fields \in Collections(Directives(self), MaxDirectives)
    /\ rval = NotCalled
    /\ pc = "call"

Call ==
    /\ pc = "call"
    /\ rval' = BaseModel_to_json(self, private, extra_fields, skip_nulls)
    /\ pc' = "done"
    /\ UNCHANGED <<self, private, extra_fields, skip_nulls>>
    /\ UNCHANGED handler_vars

(***************************************************************************)
(* bbtornado/handlers.py.  One handler object exists per request; the      *)
(* client keeps the user_id cookie that a response sets and sends it with  *)
(* a later request.  Handlers share no state apart from that cookie and    *)
(* the count of sessions created, and every operation below is             *)
(* synchronous, so requests are taken one after the other.                 *)
(***************************************************************************)
DefaultErrorCode == 401

ErrorCodes == {DefaultErrorCode, 403}

UserIds == 0..MaxUserId

\* the rows of application.user_model in the database
UserRows == UserIds

\* the names bound in the namespace of the module handlers.py
ModuleGlobals == {"os", "tornado", "ThreadPoolExecutor", "scoped_session",
                  "authenticated", "BaseHandler", "SingleFileHandler"}

Digits == <<"0", "1", "2", "3", "4", "5", "6", "7", "8", "9">>

\* unicode(value) of an int
RECURSIVE unicode(_)
unicode(n) ==
    IF n < 0 THEN <<"-">> \o unicode(-n)
    ELSE IF n < 10 THEN <<Digits[n + 1]>>
    ELSE unicode(n \div 10) \o <<Digits[(n % 10) + 1]>>

DigitValue(ch) == CHOOSE d \in 0..9 : Digits[d + 1] = ch

\* int(user_id) of a string of digits with an optional sign
RECURSIVE int(_)
int(str) ==
    IF str[1] = "-" THEN -int(Tail(str))
    ELSE IF Len(str) = 1 THEN DigitValue(str[1])
    ELSE 10 * int(SubSeq(str, 1, Len(str) - 1)) + DigitValue(str[Len(str)])

NoCookie      == [present |-> FALSE, value |-> <<>>, from |-> -1]
Cookie(v, n)  == [present |-> TRUE, value |-> v, from |-> n]

NoUser     == [kind |-> "None", id |-> -1]
UserId(n)  == [kind |-> "int", id |-> n]
UserRow(n) == [kind |-> "row", id |-> n]

\* the values the application assigns to current_user
LoginValues == {UserId(n) : n \in UserIds} \cup
               (IF user_model THEN {UserRow(n) : n \in UserRows} ELSE {})

\* Python truth value of what get_current_user returns
Truthy(u) == CASE u.kind = "None" -> FALSE
               [] u.kind = "int"  -> u.id # 0
               [] u.kind = "row"  -> TRUE

NoHandler ==
    [phase |-> "none", cookie |-> NoCookie, has_session |-> FALSE, session |-> 0,
     created |-> 0, accesses |-> 0, returned |-> {}, removed |-> <<>>,
     resolved |-> FALSE, user |-> NoUser,
     outcome |-> "none", status |-> 0, body_ran |-> FALSE, error_code |-> 0]

\* BaseHandler.db with a session created on every access
db_AlwaysCreates(h, n) ==
    [h |-> [h EXCEPT !.has_session = TRUE, !.session = n + 1,
                     !.created = @ + 1,
                     !.accesses = IF @ < MaxAccesses THEN @ + 1 ELSE @,
                     !.returned = @ \cup {n + 1}],
     n |-> n + 1]

\* BaseHandler.db: the handler and the number of scoped sessions after the
\* property is read
db(h, n) ==
    LET h1 == IF ~h.has_session
              THEN [h EXCEPT !.has_session = TRUE, !.session = n + 1, !.created = @ + 1]
              ELSE h
    IN  [h |-> [h1 EXCEPT !.accesses = IF @ < MaxAccesses THEN @ + 1 ELSE @,
                          !.returned = @ \cup {h1.session}],
         n |-> IF ~h.has_session THEN n + 1 ELSE n]

\* BaseHandler.get_current_user: the user, and the handler and session count
\* after the call
get_current_user(h, n) ==
    LET user_id == h.cookie
        truthy  == user_id.present /\ user_id.value # <<>>
    IN  IF user_model
        THEN IF truthy
             THEN LET d == db(h, n)
                      i == int(user_id.value)
                  IN  [user |-> IF i \in UserRows THEN UserRow(i) ELSE NoUser,
                       h |-> d.h, n |-> d.n]
             ELSE [user |-> NoUser, h |-> h, n |-> n]
        ELSE [user |-> IF truthy THEN UserId(int(user_id.value)) ELSE NoUser,
              h |-> h, n |-> n]

\* authenticated.wrapper
wrapper(h, n, error_code) ==
    LET g == get_current_user(h, n)
    IN  IF ~Truthy(g.user)
        THEN [h |-> [g.h EXCEPT !.outcome = "HTTPError", !.status = error_code], n |-> g.n]
        ELSE [h |-> [g.h EXCEPT !.outcome = "returned", !.body_ran = TRUE], n |-> g.n]

\* authenticated(error_code)(method)(self): decorator(method) evaluates
\* functools.wraps before any wrapper exists
decorated_call(h, n, error_code) ==
    IF "functools" \in ModuleGlobals
    THEN wrapper(h, n, error_code)
    ELSE [h |-> [h EXCEPT !.outcome = "NameError"], n |-> n]

\* the framework constructs the handler of a new request; the client sends
\* the cookie it holds, or none
Prepare ==
    /\ handler.phase \in {"none", "finished"}
    /\ requests < MaxRequests
    /\ \E c \in {jar, NoCookie} : handler' = [NoHandler EXCEPT !.phase = "open", !.cookie = c]
    /\ requests' = requests + 1
    /\ UNCHANGED <<user_model, jar, nsessions>>
    /\ UNCHANGED json_vars

ReadDb ==
    /\ handler.phase = "open"
    /\ LET d == db(handler, nsessions)
       IN  handler' = d.h /\ nsessions' = d.n
    /\ UNCHANGED <<user_model, jar, requests>>
    /\ UNCHANGED json_vars

on_finish ==
    /\ handler.phase = "open"
    /\ handler' = [handler EXCEPT !.phase = "finished",
                                  !.removed = IF handler.has_session
                                              THEN Append(@, handler.session) ELSE @]
    /\ UNCHANGED <<user_model, jar, requests, nsessions>>
    /\ UNCHANGED json_vars

\* the framework's current_user property calls get_current_user
ReadCurrentUser ==
    /\ handler.phase = "open"
    /\ ~handler.resolved
    /\ LET g == get_current_user(handler, nsessions)
       IN  /\ handler' = [g.h EXCEPT !.resolved = TRUE, !.user = g.user]
           /\ nsessions' = g.n
    /\ UNCHANGED <<user_model, jar, requests>>
    /\ UNCHANGED json_vars

\* the current_user setter
SetCurrentUser ==
    /\ handler.phase = "open"
    /\ \E v \in LoginValues :
          LET value == IF user_model /\ v.kind = "row" THEN UserId(v.id) ELSE v
          IN  jar' = Cookie(unicode(value.id), v.id)
    /\ UNCHANGED <<user_model, handler, requests, nsessions>>
    /\ UNCHANGED json_vars

CallAuthenticated ==
    /\ handler.phase = "open"
    /\ handler.outcome = "none"
    /\ \E error_code \in ErrorCodes :
          LET c == decorated_call(handler, nsessions, error_code)
          IN  handler' = [c.h EXCEPT !.error_code = error_code] /\ nsessions' = c.n
    /\ UNCHANGED <<user_model, jar, requests>>
    /\ UNCHANGED json_vars

HandlerIdle ==
    /\ user_model = FALSE
    /\ jar = NoCookie
    /\ handler = NoHandler
    /\ requests = 0
    /\ nsessions = 0

JsonIdle ==
    /\ self = "t"
    /\ private = FALSE
    /\ skip_nulls = FALSE
    /\ extra_fields = {}
    /\ rval = NotCalled
    /\ pc = "idle"

Init == JsonInit /\ HandlerIdle

Next == Call

Spec == Init /\ [][Next]_vars

HandlerInit ==
    /\ JsonIdle
    /\ user_model \in BOOLEAN
    /\ jar = NoCookie
    /\ handler = NoHandler
    /\ requests = 0
    /\ nsessions = 0

HandlerNext ==
    \/ Prepare
    \/ ReadDb
    \/ on_finish
    \/ ReadCurrentUser
    \/ SetCurrentUser
    \/ CallAuthenticated

HandlerSpec == HandlerInit /\ [][HandlerNext]_vars

(***************************************************************************)
(* Reading the returned structure                                          *)
(***************************************************************************)
RECURSIVE PathPrefix(_)
PathPrefix(p) == IF p = <<>> THEN <<>> ELSE p[1] \o Dot \o PathPrefix(Tail(p))

\* the dicts of a returned structure, each with the path of keys leading to it
RECURSIVE Dicts(_, _)
Dicts(s, p) ==
    CASE s.kind = "dict" ->
           {<<p, s.items>>} \cup UNION {Dicts(s.items[k], Append(p, k)) : k \in DOMAIN s.items}
      [] s.kind = "list" -> UNION {Dicts(s.elems[i], p) : i \in DOMAIN s.elems}
      [] OTHER -> {}

\* the field values of a returned structure, each with the path of the
\* object it is a field of
RECURSIVE Occ(_, _)
Occ(s, p) ==
    CASE s.kind = "scalar" -> {<<p, s>>}
      [] s.kind = "dict" ->
           UNION {IF s.items[k].kind = "scalar" THEN {<<p, s.items[k]>>}
                  ELSE Occ(s.items[k], Append(p, k)) : k \in DOMAIN s.items}
      [] s.kind = "list" -> UNION {Occ(s.elems[i], p) : i \in DOMAIN s.elems}
      [] OTHER -> {}

Returned == pc = "done" /\ rval.kind = "dict"

IsHidden(v)  == v.field \in json_fields_hidden(Class(v.owner))
IsPrivate(v) == v.field \in json_fields_private(Class(v.owner))

(***************************************************************************)
(* C1: no value of a hidden field occurs anywhere in the structure that    *)
(* BaseModel._to_json returns.                                             *)
(***************************************************************************)
C1_HiddenNeverShown ==
    pc = "done" => \A x \in Occ(rval, <<>>) : ~IsHidden(x[2])

(***************************************************************************)
(* C2: with private=False a private field value occurs in the output only  *)
(* if a directive of extra_fields names that field at the path of the      *)
(* object it belongs to.                                                   *)
(***************************************************************************)
C2_PrivateNotLeaked ==
    (pc = "done" /\ ~private) =>
        \A x \in Occ(rval, <<>>) :
            IsPrivate(x[2]) =>
                \E fl \in Flags : (PathPrefix(x[1]) \o fl \o x[2].field) \in extra_fields

(***************************************************************************)
(* C3: a dotted directive a.<d> changes the serialisation of the field     *)
(* named a only; every other key of the result has the value it has when   *)
(* the directive is absent.                                                *)
(***************************************************************************)
C3_DottedDirectiveScoped ==
    Returned =>
        \A d \in extra_fields :
            HasDot(d) =>
                LET a       == SubSeq(d, 1, IndexDot(d) - 1)
                    without == BaseModel_to_json(self, private, extra_fields \ {d}, skip_nulls)
                IN  \A k \in DOMAIN rval.items :
                        k # a => /\ without.kind = "dict"
                                 /\ k \in DOMAIN without.items
                                 /\ without.items[k] = rval.items[k]

C5_OnlyRestricts ==
    Returned =>
        LET c    == Class(self)
            only == {Slice1(d) : d \in {g \in extra_fields : StartsWith(g, <<"^">>)}}
        IN  only # {} =>
                /\ DOMAIN rval.items \subseteq only
                /\ \A k \in DOMAIN rval.items :
                       /\ k \notin json_fields_hidden(c)
                       /\ (<<"!">> \o k) \notin extra_fields
                       /\ (~private /\ k \in json_fields_private(c)) => k \in extra_fields

C5_Witness ==
    /\ Returned
    /\ ~private
    /\ \E f \in json_fields_private(Class(self)) : (<<"^">> \o f) \in extra_fields
    /\ \E g \in DOMAIN rval.items : (<<"^">> \o g) \in extra_fields

(***************************************************************************)
(* C6: a list field with exactly one ^ directive given for it is rendered  *)
(* as the list of the bare values of the named attribute, in order; with   *)
(* no or several ^ directives given for it every element is rendered as an *)
(* object, and so is a field that is not a list.                           *)
(***************************************************************************)
C6_SingleOnlyGivesBareList ==
    Returned =>
        \A k \in DOMAIN rval.items :
            LET val   == GetAttr(self, k)
                pre   == k \o Dot \o <<"^">>
                given == {d \in extra_fields : StartsWith(d, pre)}
                out   == rval.items[k]
            IN  /\ (val.kind = "list" /\ Cardinality(given) = 1) =>
                       LET d    == CHOOSE g \in given : TRUE
                           name == SubSeq(d, Len(pre) + 1, Len(d))
                       IN  out = List([i \in DOMAIN val.elems |-> GetAttr(val.elems[i].o, name)])
                /\ (val.kind = "list" /\ Cardinality(given) # 1) =>
                       /\ out.kind = "list"
                       /\ Len(out.elems) = Len(val.elems)
                       /\ \A i \in DOMAIN out.elems : out.elems[i].kind = "dict"
                /\ val.kind = "obj" => out.kind = "dict"

(***************************************************************************)
(* C7: the scoped session of a handler is created by the first read of db  *)
(* only, every read returns that session, on_finish removes it exactly     *)
(* when it was created, and a request that never reads db creates and      *)
(* removes none.                                                           *)
(***************************************************************************)
C7_LazySession ==
    /\ handler.created <= 1
    /\ (handler.created = 1) <=> (handler.accesses > 0)
    /\ handler.has_session <=> (handler.created = 1)
    /\ handler.returned \subseteq {handler.session}
    /\ handler.phase = "finished" =>
           handler.removed = IF handler.created = 1 THEN <<handler.session>> ELSE <<>>
    /\ handler.phase # "finished" => handler.removed = <<>>

C7_Witness ==
    /\ handler.phase = "finished"
    /\ handler.accesses >= 2
    /\ handler.created = 1
    /\ handler.removed = <<handler.session>>

(***************************************************************************)
(* C8: a call of a method wrapped by authenticated runs the method body    *)
(* and returns when the handler's current_user is set, and otherwise       *)
(* raises HTTPError with the configured error_code without entering the    *)
(* body.                                                                   *)
(***************************************************************************)
C8_AuthenticatedEnforces ==
    handler.outcome # "none" =>
        IF get_current_user(handler, nsessions).user # NoUser
        THEN handler.outcome = "returned" /\ handler.body_ran
        ELSE /\ handler.outcome = "HTTPError"
             /\ handler.status = handler.error_code
             /\ ~handler.body_ran

(***************************************************************************)
(* C9: a request that carries the user_id cookie produced by assigning id  *)
(* n to current_user resolves get_current_user to n (to the row n with a   *)
(* user_model) and passes the authenticated decorator, for every n         *)
(* including 0; a request without the cookie resolves to no user.          *)
(***************************************************************************)
C9_LoginRoundTrip ==
    /\ (handler.resolved /\ handler.cookie.present) =>
           handler.user = IF user_model THEN UserRow(handler.cookie.from)
                          ELSE UserId(handler.cookie.from)
    /\ (handler.resolved /\ ~handler.cookie.present) => handler.user = NoUser
    /\ handler.cookie.present =>
           \A error_code \in ErrorCodes :
               wrapper(handler, nsessions, error_code).h.outcome = "returned"

====
